---------------------------- MODULE Spec2Model ----------------------------
(***************************************************************************)
(* A model of the meadow metadata agent (nulib/meadow-ai, priv/python):    *)
(*                                                                         *)
(*   - the three tool handlers of agent/src/meadow_metadata_agent/tools.py *)
(*     (generate_description, generate_keywords, call_graphql_endpoint);   *)
(*   - the call_graphql_endpoint handler that the script query.py defines  *)
(*     for itself;                                                         *)
(*   - the query facade and its response aggregation of                    *)
(*     agent/src/meadow_metadata_agent/execute.py, and the                 *)
(*     query_claude_general_local that query.py defines for itself.        *)
(*                                                                         *)
(* Texts are TLA+ strings; Len, \o and SubSeq act on them as Python's      *)
(* len, + and slicing do.  A mapping (a Python dict, the process           *)
(* environment) is a function whose domain is the set of keys present.     *)
(***************************************************************************)
EXTENDS Integers, Sequences, FiniteSets, TLC

VARIABLES
    tool,       \* the tool handler invoked ("none" before the invocation)
    tpc,        \* its position: "idle", "posting", "returned", "raised"
    targs,      \* the args mapping it was invoked with
    tenv,       \* the process environment it reads (os.getenv)
    tglobals,   \* the module globals it reads (query.py's handler)
    tout,       \* the value it returned: [content |-> <<text blocks>>]
    posts,      \* the HTTP POSTs performed so far (requests.post), in order
    tresp,      \* the HTTP response the handler received, if any
    fpc,        \* per facade call, its position: "idle", "connect", "query",
                \* "receive", "exiting", "returned", "raised"
    fentry,     \* per call, the entry point called
    fin,        \* per call, the arguments it was called with
    fprompt,    \* per call, the prompt it built
    client,     \* per call, the session its `client` is bound to (0: none)
    acc,        \* per call, its running text (result / final_result)
    ret,        \* per call, the value it returned
    ferr,       \* per call, the failure it raises ("none": none)
    sessions,   \* the sessions of the agent runtime, in the order they opened
    global_client   \* the module-level global_client

toolVars == <<tool, tpc, targs, tenv, tglobals, tout, posts, tresp>>

facadeVars ==
    <<fpc, fentry, fin, fprompt, client, acc, ret, ferr, sessions, global_client>>

vars == <<toolVars, facadeVars>>

(***************************************************************************)
(* Bounds of the model.                                                    *)
(***************************************************************************)
MaxStrLen == 2          \* longest content/context text of generate_description
MaxLengthArg == 46      \* largest max_length tried (the template alone is 24 long)
MaxNegArg == 3          \* most negative max_length / max_keywords tried is -MaxNegArg
MaxKwStrLen == 4        \* longest free-form content text of generate_keywords
MaxChunks == 3          \* most word chunks in a generate_keywords content
MaxCtxChunks == 1       \* most word chunks in a generate_keywords context
MaxKeywordsArg == 3     \* largest max_keywords tried
MaxMsgs == 3            \* longest message stream of a single facade call
MaxConcMsgs == 2        \* longest message stream of each of the concurrent calls

(***************************************************************************)
(* Program constants.                                                      *)
(***************************************************************************)
DefaultMaxLength == 400     \* args.get("max_length", 400)
DefaultMaxKeywords == 10    \* args.get("max_keywords", 10)
ContentPrefixLen == 100     \* content[:100]
EllipsisLen == 3            \* description[:max_length-3]
MinWordLen == 3             \* len(word) > 3
PostTimeout == 30           \* timeout=30
HttpOk == 200               \* response.status_code == 200

(***************************************************************************)
(* Python helpers.                                                         *)
(***************************************************************************)
Min(a, b) == IF a < b THEN a ELSE b

Max(a, b) == IF a > b THEN a ELSE b

\* s[:k]: a negative k counts from the end, and both ends are clamped.
PySliceTo(s, k) ==
    LET n == Len(s)
        e == IF k < 0 THEN Max(n + k, 0) ELSE Min(k, n)
    IN  SubSeq(s, 1, e)

\* args.get(key, default)
Get(args, key, default) == IF key \in DOMAIN args THEN args[key] ELSE default

\* The mapping with no key.
EmptyMap == [k \in {} |-> ""]

\* Every mapping that either lacks key k or binds it to a value of S.
Opt(k, S) == {EmptyMap} \cup {k :> v : v \in S}

\* The texts over alphabet A of length at most n.
RECURSIVE Strs(_, _)
Strs(A, n) ==
    IF n = 0 THEN {""}
    ELSE LET shorter == Strs(A, n - 1)
         IN  shorter \cup {s \o c : s \in shorter, c \in A}

\* The text c repeated n times.
RECURSIVE Rep(_, _)
Rep(c, n) == IF n = 0 THEN "" ELSE c \o Rep(c, n - 1)

\* A tool's return value: {"content": [{"type": "text", "text": text}]}
TextResult(text) == [content |-> <<[type |-> "text", text |-> text]>>]

NoResult == [content |-> <<>>]

(***************************************************************************)
(* JSON texts and values.  A value is tagged: <<"null">>, <<"num", n>>,    *)
(* <<"str", s>>, <<"arr", items>>, <<"obj", <<key, value>> pairs>>.        *)
(***************************************************************************)
JNull == <<"null">>

JNum(n) == <<"num", n>>

JStr(s) == <<"str", s>>

JArr(items) == <<"arr", items>>

JObj(pairs) == <<"obj", pairs>>

\* json.loads / response.json() on the texts of the model: the value each
\* valid text parses to.  A text outside the domain raises JSONDecodeError.
JsonTable ==
    ("{\"data\": {\"x\": 1}}" :> JObj(<< <<"data", JObj(<< <<"x", JNum(1)>> >>)>> >>)) @@
    ("{\"data\":{\"x\":1}}" :> JObj(<< <<"data", JObj(<< <<"x", JNum(1)>> >>)>> >>)) @@
    ("{\"a\": 1}" :> JObj(<< <<"a", JNum(1)>> >>)) @@
    ("{}" :> JObj(<<>>)) @@
    ("[1]" :> JArr(<<JNum(1)>>)) @@
    ("\"boom\"" :> JStr("boom")) @@
    ("null" :> JNull)

JsonValid(text) == text \in DOMAIN JsonTable

JsonLoads(text) == JsonTable[text]

\* sep.join(items)
RECURSIVE Join(_, _)
Join(sep, items) ==
    IF items = <<>> THEN ""
    ELSE IF Len(items) = 1 THEN items[1]
    ELSE items[1] \o sep \o Join(sep, Tail(items))

\* json.dumps(v): separators ", " and ": ".
RECURSIVE JsonDumps(_)
JsonDumps(v) ==
    CASE v[1] = "null" -> "null"
      [] v[1] = "num" -> ToString(v[2])
      [] v[1] = "str" -> "\"" \o v[2] \o "\""
      [] v[1] = "arr" ->
            "[" \o Join(", ", [i \in 1 .. Len(v[2]) |-> JsonDumps(v[2][i])]) \o "]"
      [] v[1] = "obj" ->
            "{" \o Join(", ", [i \in 1 .. Len(v[2]) |->
                        "\"" \o v[2][i][1] \o "\": " \o JsonDumps(v[2][i][2])]) \o "}"

\* json.dumps(v, indent=2) at nesting depth d: one item per line, indented.
RECURSIVE JsonDumpsIndent(_, _)
JsonDumpsIndent(v, d) ==
    LET pad == Rep("  ", d + 1)
        close == "\n" \o Rep("  ", d)
    IN  CASE v[1] = "arr" /\ v[2] # <<>> ->
                "[\n" \o Join(",\n", [i \in 1 .. Len(v[2]) |->
                            pad \o JsonDumpsIndent(v[2][i], d + 1)]) \o close \o "]"
          [] v[1] = "obj" /\ v[2] # <<>> ->
                "{\n" \o Join(",\n", [i \in 1 .. Len(v[2]) |->
                            pad \o "\"" \o v[2][i][1] \o "\": "
                                \o JsonDumpsIndent(v[2][i][2], d + 1)]) \o close \o "}"
          [] OTHER -> JsonDumps(v)

\* bool(v) of a parsed value.
JsonTruthy(v) ==
    CASE v[1] = "null" -> FALSE
      [] v[1] = "num" -> v[2] # 0
      [] v[1] = "str" -> v[2] # ""
      [] OTHER -> v[2] # <<>>

(***************************************************************************)
(* generate_description                                                    *)
(***************************************************************************)
\* The template text, before the trim.
DescriptionTemplate(args) ==
    LET content == Get(args, "content", "")
        context == Get(args, "context", "")
        d0 == "Analysis of content"
        d1 == IF context # "" THEN d0 \o " in context of " \o context ELSE d0
    IN  d1 \o ": " \o PySliceTo(content, ContentPrefixLen) \o "..."

generate_description_tool(args) ==
    LET max_length == Get(args, "max_length", DefaultMaxLength)
        description == DescriptionTemplate(args)
    IN  IF Len(description) > max_length
        THEN TextResult(PySliceTo(description, max_length - EllipsisLen) \o "...")
        ELSE TextResult(description)

DescAlphabet == {"a", "b"}

DescContents == Strs(DescAlphabet, MaxStrLen) \cup {Rep("x", ContentPrefixLen + 1)}

DescContexts == Strs(DescAlphabet, MaxStrLen)

DescArgs ==
    {a @@ b @@ c : a \in Opt("content", DescContents),
                   b \in Opt("context", DescContexts),
                   c \in Opt("max_length", (-MaxNegArg) .. MaxLengthArg)}

GenerateDescription ==
    /\ tpc = "idle"
    /\ \E args \in DescArgs :
        /\ tool' = "generate_description"
        /\ targs' = args
        /\ tout' = generate_description_tool(args)
    /\ tpc' = "returned"
    /\ UNCHANGED <<tenv, tglobals, posts, tresp, facadeVars>>

(***************************************************************************)
(* generate_keywords                                                       *)
(***************************************************************************)
\* The characters \w matches, among those of the model's texts.
WordChars == {"a", "b", "A", "B", "_", "1"}

LowerCharUnchanged(c) == c

\* str.lower(), a character at a time.
LowerChar(c) == IF c = "A" THEN "a" ELSE IF c = "B" THEN "b" ELSE c

RECURSIVE Lower(_)
Lower(s) ==
    IF s = "" THEN ""
    ELSE LowerChar(SubSeq(s, 1, 1)) \o Lower(SubSeq(s, 2, Len(s)))

\* re.findall(r'\b\w+\b', s): the maximal runs of word characters of s, in
\* order; cur is the run being read at position i.
RECURSIVE FindWords(_, _, _)
FindWords(s, i, cur) ==
    LET flush == IF cur = "" THEN <<>> ELSE <<cur>>
    IN  IF i > Len(s) THEN flush
        ELSE LET c == SubSeq(s, i, i)
             IN  IF c \in WordChars
                 THEN FindWords(s, i + 1, cur \o c)
                 ELSE flush \o FindWords(s, i + 1, "")

FindAll(s) == FindWords(s, 1, "")

\* The loop over all_words: word_freq as its keys in insertion order and the
\* count of each key.
RECURSIVE CountWords(_, _, _)
CountWords(words, keys, freq) ==
    IF words = <<>> THEN [keys |-> keys, freq |-> freq]
    ELSE LET word == Head(words)
         IN  IF Len(word) > MinWordLen
             THEN IF word \in DOMAIN freq
                  THEN CountWords(Tail(words), keys,
                                  [freq EXCEPT ![word] = @ + 1])
                  ELSE CountWords(Tail(words), Append(keys, word),
                                  freq @@ (word :> 1))
             ELSE CountWords(Tail(words), keys, freq)

\* An unstable variant: k goes ahead of the keys counted as often as it.
InsertByFreqTiesFirst(sorted, k, freq) ==
    LET ahead == {i \in 1 .. Len(sorted) : freq[sorted[i]] > freq[k]}
        n == Cardinality(ahead)
    IN  SubSeq(sorted, 1, n) \o <<k>> \o SubSeq(sorted, n + 1, Len(sorted))

\* sorted(keys, key=freq, reverse=True): a stable sort, so keys of equal
\* count keep their order.  k goes after the keys counted at least as often.
InsertByFreq(sorted, k, freq) ==
    LET ahead == {i \in 1 .. Len(sorted) : freq[sorted[i]] >= freq[k]}
        n == Cardinality(ahead)
    IN  SubSeq(sorted, 1, n) \o <<k>> \o SubSeq(sorted, n + 1, Len(sorted))

RECURSIVE SortedByFreq(_, _)
SortedByFreq(keys, freq) ==
    IF keys = <<>> THEN <<>>
    ELSE InsertByFreq(SortedByFreq(SubSeq(keys, 1, Len(keys) - 1), freq),
                      keys[Len(keys)], freq)

\* The keywords list of generate_keywords, before it is joined.
Keywords(args) ==
    LET content == Get(args, "content", "")
        context == Get(args, "context", "")
        max_keywords == Get(args, "max_keywords", DefaultMaxKeywords)
        words == FindAll(Lower(content))
        context_words == IF context # "" THEN FindAll(Lower(context)) ELSE <<>>
        all_words == words \o context_words
        word_freq == CountWords(all_words, <<>>, EmptyMap)
    IN  PySliceTo(SortedByFreq(word_freq.keys, word_freq.freq), max_keywords)

generate_keywords_tool(args) == TextResult(Join(", ", Keywords(args)))

KwAlphabet == {"a", "B", " "}

KwChunks == {"abba ", "ABBA,", "baba ", "bbaa ", "a_1 "}

KwContents == Strs(KwAlphabet, MaxKwStrLen) \cup Strs(KwChunks, MaxChunks)

KwContexts == Strs(KwChunks, MaxCtxChunks)

KwArgs ==
    {a @@ b @@ c : a \in Opt("content", KwContents),
                   b \in Opt("context", KwContexts),
                   c \in Opt("max_keywords", (-MaxNegArg) .. MaxKeywordsArg)}

GenerateKeywords ==
    /\ tpc = "idle"
    /\ \E args \in KwArgs :
        /\ tool' = "generate_keywords"
        /\ targs' = args
        /\ tout' = generate_keywords_tool(args)
    /\ tpc' = "returned"
    /\ UNCHANGED <<tenv, tglobals, posts, tresp, facadeVars>>

(***************************************************************************)
(* call_graphql_endpoint.  An optional text (None or a str) is <<>> or     *)
(* <<text>>.                                                               *)
(***************************************************************************)
None == <<>>

Some(text) == <<text>>

\* bool(x) of an optional text
Truthy(x) == x # None /\ x[1] # ""

\* args.get(key) / os.getenv(key)
Lookup(map, key) == IF key \in DOMAIN map THEN Some(map[key]) ELSE None

\* a or b
OrElse(a, b) == IF Truthy(a) THEN a ELSE b

graphql_endpoint(args, env) ==
    OrElse(Lookup(args, "graphql_endpoint"), Lookup(env, "GRAPHQL_ENDPOINT"))

graphql_auth_token(args, env) ==
    OrElse(Lookup(args, "graphql_auth_token"), Lookup(env, "GRAPHQL_AUTH_TOKEN"))

graphql_headers(args, env) ==
    LET token == graphql_auth_token(args, env)
    IN  IF Truthy(token)
        THEN ("Content-Type" :> "application/json") @@
             ("Authorization" :> "Bearer " \o token[1])
        ELSE ("Content-Type" :> "application/json")

\* The arguments of requests.post
graphql_request(args, env) ==
    [url |-> graphql_endpoint(args, env)[1],
     json |-> [query |-> Get(args, "graphql_query", ""),
               variables |-> Get(args, "graphql_vars", EmptyMap)],
     headers |-> graphql_headers(args, env),
     timeout |-> PostTimeout]

EndpointMissingText == "Error: GraphQL endpoint not provided"

endpoint_is_none(endpoint) == endpoint = None

\* if not graphql_endpoint
endpoint_missing(endpoint) == ~Truthy(endpoint)

\* What the handler does with the response of its POST (the same statements
\* in tools.py and in query.py): the position it ends in and the value it
\* returns.  response.json() raises on a body that is
\* not JSON.
graphql_on_response(status, body) ==
    IF status = HttpOk
    THEN IF JsonValid(body)
         THEN [pc |-> "returned", out |-> TextResult(JsonDumps(JsonLoads(body)))]
         ELSE [pc |-> "raised", out |-> NoResult]
    ELSE [pc |-> "returned",
          out |-> TextResult("Error: " \o ToString(status) \o " - " \o body)]

GraphqlArgs ==
    {a @@ b @@ c @@ d : a \in Opt("graphql_query", {"{ works { id } }"}),
                        b \in Opt("graphql_vars", {EmptyMap, "id" :> "1"}),
                        c \in Opt("graphql_endpoint", {"", "http://arg/graphql"}),
                        d \in Opt("graphql_auth_token", {"", "argtoken"})}

GraphqlEnvs ==
    {a @@ b : a \in Opt("GRAPHQL_ENDPOINT", {"", "http://env/graphql"}),
              b \in Opt("GRAPHQL_AUTH_TOKEN", {"", "envtoken"})}

HttpStatuses == {200, 404, 500}

HttpBodies == {"{\"data\": {\"x\": 1}}", "{\"data\":{\"x\":1}}", "\"boom\"", "boom", ""}

NoResponse == [status |-> 0, text |-> ""]

\* The handler up to its POST: the early return when no endpoint is resolved,
\* otherwise the request is sent and the handler waits for the response.
CallGraphqlEndpoint ==
    /\ tpc = "idle"
    /\ \E args \in GraphqlArgs, env \in GraphqlEnvs :
        /\ tool' = "call_graphql_endpoint"
        /\ targs' = args
        /\ tenv' = env
        /\ IF endpoint_missing(graphql_endpoint(args, env))
           THEN /\ tout' = TextResult(EndpointMissingText)
                /\ tpc' = "returned"
                /\ posts' = posts
           ELSE /\ posts' = Append(posts, graphql_request(args, env))
                /\ tpc' = "posting"
                /\ tout' = tout
    /\ UNCHANGED <<tglobals, tresp, facadeVars>>

\* The server answers the POST and the handler runs to its end.
HttpResponse ==
    /\ tpc = "posting"
    /\ \E status \in HttpStatuses, body \in HttpBodies :
        /\ tresp' = [status |-> status, text |-> body]
        /\ tpc' = graphql_on_response(status, body).pc
        /\ tout' = graphql_on_response(status, body).out
    /\ UNCHANGED <<tool, targs, tenv, tglobals, posts, facadeVars>>

\* requests.post raises (no connection, no answer within the timeout, a URL
\* it cannot use) and the handler does not catch it.
HttpTransportError ==
    /\ tpc = "posting"
    /\ tpc' = "raised"
    /\ UNCHANGED <<tool, targs, tenv, tglobals, tout, posts, tresp, facadeVars>>

(***************************************************************************)
(* query.py defines its own call_graphql_endpoint handler.  It reads the   *)
(* names graphql_endpoint and graphql_auth_token, which the script does    *)
(* not bind: they are globals of the interpreter it is run in, and a name  *)
(* that is not bound there raises NameError.                               *)
(***************************************************************************)
\* headers = {"Content-Type": ..., "Authorization": f"Bearer {token}"}
query_headers(globals) ==
    ("Content-Type" :> "application/json") @@
    ("Authorization" :> "Bearer " \o globals["graphql_auth_token"])

\* The arguments of requests.post in query.py: no timeout is passed.
query_request(args, globals) ==
    [url |-> globals["graphql_endpoint"],
     json |-> [query |-> Get(args, "graphql_query", ""),
               variables |-> Get(args, "graphql_vars", EmptyMap)],
     headers |-> query_headers(globals)]

QueryGlobals ==
    {a @@ b : a \in Opt("graphql_endpoint", {"", "http://global/graphql"}),
              b \in Opt("graphql_auth_token", {"", "globaltoken"})}

\* The handler of query.py up to its POST.  There is no check of the
\* endpoint: requests.post is called with whatever the global holds.
QueryCallGraphqlEndpoint ==
    /\ tpc = "idle"
    /\ \E args \in GraphqlArgs, env \in GraphqlEnvs, globals \in QueryGlobals :
        /\ tool' = "query.call_graphql_endpoint"
        /\ targs' = args
        /\ tenv' = env
        /\ tglobals' = globals
        /\ IF {"graphql_auth_token", "graphql_endpoint"} \subseteq DOMAIN globals
           THEN /\ posts' = Append(posts, query_request(args, globals))
                /\ tpc' = "posting"
           ELSE /\ posts' = posts
                /\ tpc' = "raised"
    /\ UNCHANGED <<tout, tresp, facadeVars>>

InitTools ==
    /\ tool = "none"
    /\ tpc = "idle"
    /\ targs = EmptyMap
    /\ tenv = EmptyMap
    /\ tglobals = EmptyMap
    /\ tout = NoResult
    /\ posts = <<>>
    /\ tresp = NoResponse

(***************************************************************************)
(* The query facade (execute.py).  A message or block of the agent runtime *)
(* is a record; hasattr(x, 'f') is "f" \in DOMAIN x.                       *)
(***************************************************************************)
\* The facade calls of the model: call 1 alone under SpecFacade, both
\* interleaved under SpecConc.
Calls == {1, 2}

\* The entry points whose loop sums the text of the blocks; each *_sync runs
\* its asynchronous counterpart to completion with asyncio.run.
SumEntries ==
    {"query_claude_general", "ask_claude_for_keywords",
     "ask_claude_for_description", "query_claude_sync",
     "generate_keywords_sync", "generate_description_sync"}

\* The entry points whose loop keeps the final result only: the function of
\* execute.py and the function of the same name that the script query.py
\* defines and runs when it is loaded.
LocalEntries ==
    {"query_claude_general_local", "query.query_claude_general_local"}

\* The entry points that take a context_json.
ContextEntries ==
    {"query_claude_general", "query_claude_sync", "query_claude_general_local",
     "query.query_claude_general_local"}

Entries == SumEntries \cup LocalEntries

TextBlock(text) == [text |-> text]

ToolUseBlock == [id |-> "tu1", name |-> "call_graphql_endpoint", input |-> EmptyMap]

ToolResultBlock ==
    [tool_use_id |-> "tu1", content |-> <<[type |-> "text", text |-> "tool out"]>>]

AssistantMessage(blocks) == [content |-> blocks, model |-> "m"]

UserMessage(blocks) == [content |-> blocks]

SystemMessage == [subtype |-> "init", data |-> EmptyMap]

ResultMessage(result) == [subtype |-> "success", result |-> result]

\* The messages a stream of a single call is made of, one of each shape the
\* runtime sends: among them a message of several blocks, two of them with a
\* text, and final results of different strings.  None of its message types
\* has a text attribute of its own.
Messages ==
    {AssistantMessage(<<TextBlock("Hello ")>>),
     AssistantMessage(<<TextBlock("world")>>),
     AssistantMessage(<<TextBlock("Let me "), ToolUseBlock, TextBlock("look. ")>>),
     UserMessage(<<ToolResultBlock>>),
     SystemMessage,
     ResultMessage(Some("Final answer")),
     ResultMessage(Some("Second answer")),
     ResultMessage(None)}

\* The messages the streams of concurrent calls are made of.
ConcMessages ==
    {AssistantMessage(<<TextBlock("Hello ")>>),
     ResultMessage(Some("Final answer"))}

FallbackText == "No result generated"

RECURSIVE sum_blocks_prepending(_, _)
sum_blocks_prepending(result, blocks) ==
    IF blocks = <<>> THEN result
    ELSE sum_blocks_prepending(IF "text" \in DOMAIN Head(blocks)
                               THEN Head(blocks).text \o result
                               ELSE result,
                               Tail(blocks))

\* for block in message.content: if hasattr(block, 'text'): result += block.text
RECURSIVE sum_blocks(_, _)
sum_blocks(result, blocks) ==
    IF blocks = <<>> THEN result
    ELSE sum_blocks(IF "text" \in DOMAIN Head(blocks)
                    THEN result \o Head(blocks).text
                    ELSE result,
                    Tail(blocks))

\* The loop body of the summing entry points.
sum_step(result, message) ==
    IF "content" \in DOMAIN message THEN sum_blocks(result, message.content)
    ELSE IF "text" \in DOMAIN message THEN result \o message.text
    ELSE result

local_step_summing(final_result, message) == sum_step(final_result, message)

\* The loop body of query_claude_general_local: blocks are logged, not kept;
\* a result message with a truthy result sets final_result.
local_step(final_result, message) ==
    IF "content" \in DOMAIN message THEN final_result
    ELSE IF "result" \in DOMAIN message
         THEN IF Truthy(message.result) THEN message.result[1] ELSE final_result
    ELSE final_result

aggregate_step(entry, text, message) ==
    IF entry \in LocalEntries THEN local_step(text, message)
    ELSE sum_step(text, message)

return_value_without_fallback(entry, text) == text

\* return result / return final_result or "No result generated"
return_value(entry, text) ==
    IF entry \in LocalEntries
    THEN IF text # "" THEN text ELSE FallbackText
    ELSE text

parse_context_unguarded(context_json) ==
    IF JsonValid(context_json)
    THEN [ok |-> TRUE, data |-> JsonLoads(context_json)]
    ELSE [ok |-> FALSE, data |-> JObj(<<>>)]

\* json.loads(context_json) if context_json else {}
parse_context(context_json) ==
    IF context_json # ""
    THEN IF JsonValid(context_json)
         THEN [ok |-> TRUE, data |-> JsonLoads(context_json)]
         ELSE [ok |-> FALSE, data |-> JObj(<<>>)]
    ELSE [ok |-> TRUE, data |-> JObj(<<>>)]

enhanced_prompt_general(prompt, context_data) ==
    IF JsonTruthy(context_data)
    THEN prompt \o "\n\nContext data: " \o JsonDumpsIndent(context_data, 0)
           \o "\n\nPlease use the available tools (generate_keywords, generate_description) if they would help answer this query."
    ELSE prompt

\* The backquote character: a backquote in a string has to be closed by a
\* quote, so it is cut out of the two-character text.
Backquote == SubSeq("`'", 1, 1)

\* query_claude_general_local of execute.py
enhanced_prompt_local(prompt, context_data) ==
    "\n    Use the available tools to answer the following query:\n\n    User query: "
      \o prompt \o "\n\n    Context data: "
      \o (IF JsonTruthy(context_data) THEN JsonDumpsIndent(context_data, 0) ELSE "None")
      \o "\n\n    Please use the appropriate tools to help answer this query. For example:\n    - Before using the "
      \o Backquote \o "call_graphql_endpoint" \o Backquote
      \o " tool to query or update data, use it to discover the schema first.\n\n    Respond with both tool results and your analysis."

\* query_claude_general_local of the script query.py
enhanced_prompt_query_local(prompt, context_data) ==
    "You have access to these tools:\n    - generate_keywords: Generate relevant keywords from content\n    - generate_description: Generate a description from content\n\n    User query: "
      \o prompt \o "\n\n    Context data: "
      \o (IF JsonTruthy(context_data) THEN JsonDumpsIndent(context_data, 0) ELSE "None")
      \o "\n\n    Please use the appropriate tools to help answer this query. For example:\n    - If asked to extract keywords, use the generate_keywords tool\n    - If asked to create descriptions, use the generate_description tool\n    - Use tools even if you could answer without them, as they provide structured analysis\n\n    Respond with both tool results and your analysis."

keywords_prompt(content, context, max_keywords) ==
    "Please analyze this content and generate " \o ToString(max_keywords)
      \o " relevant keywords using the generate_keywords tool. Content: "
      \o content \o ". Context: " \o context

description_prompt(content, context, max_length) ==
    "Please analyze this content and generate a description (max "
      \o ToString(max_length)
      \o " chars) using the generate_description tool. Content: "
      \o content \o ". Context: " \o context

\* The prompt an entry point builds from its arguments.
build_prompt(entry, in) ==
    CASE entry \in {"query_claude_general", "query_claude_sync"} ->
            enhanced_prompt_general(in.prompt, parse_context(in.context_json).data)
      [] entry = "query_claude_general_local" ->
            enhanced_prompt_local(in.prompt, parse_context(in.context_json).data)
      [] entry = "query.query_claude_general_local" ->
            enhanced_prompt_query_local(in.prompt, parse_context(in.context_json).data)
      [] entry \in {"ask_claude_for_keywords", "generate_keywords_sync"} ->
            keywords_prompt(in.content, in.context, in.max_keywords)
      [] entry \in {"ask_claude_for_description", "generate_description_sync"} ->
            description_prompt(in.content, in.context, in.max_length)

ContextTexts == {"", "{}", "{\"a\": 1}", "null", "not json"}

\* The arguments an entry point may be called with.
EntryInputs(entry) ==
    CASE entry \in ContextEntries ->
            {[prompt |-> "List the works", context_json |-> x] : x \in ContextTexts}
      [] entry \in {"ask_claude_for_keywords", "generate_keywords_sync"} ->
            {[content |-> "abba baba", context |-> "", max_keywords |-> DefaultMaxKeywords]}
      [] entry \in {"ask_claude_for_description", "generate_description_sync"} ->
            {[content |-> "abba baba", context |-> "", max_length |-> DefaultMaxLength]}

NoInput == EmptyMap

NewSession(c) == [owner |-> c, state |-> "open", prompts |-> <<>>, yielded |-> <<>>]

\* A call of an entry point, up to its first await: the context is parsed and
\* the prompt built; json.loads raises on a context that is not JSON.
Call(c, entries) ==
    /\ fpc[c] = "idle"
    /\ \E entry \in entries :
       \E in \in EntryInputs(entry) :
        /\ fentry' = [fentry EXCEPT ![c] = entry]
        /\ fin' = [fin EXCEPT ![c] = in]
        /\ IF entry \in ContextEntries /\ ~parse_context(in.context_json).ok
           THEN /\ fpc' = [fpc EXCEPT ![c] = "raised"]
                /\ ferr' = [ferr EXCEPT ![c] = "JSONDecodeError"]
                /\ fprompt' = fprompt
           ELSE /\ fpc' = [fpc EXCEPT ![c] = "connect"]
                /\ ferr' = ferr
                /\ fprompt' = [fprompt EXCEPT ![c] = build_prompt(entry, in)]
    /\ UNCHANGED <<client, acc, ret, sessions, global_client, toolVars>>

\* async with ClaudeSDKClient(options=...) as client: a session of the call's
\* own is opened and bound to its `client`.
Connect(c) ==
    /\ fpc[c] = "connect"
    /\ sessions' = Append(sessions, NewSession(c))
    /\ client' = [client EXCEPT ![c] = Len(sessions) + 1]
    /\ fpc' = [fpc EXCEPT ![c] = "query"]
    /\ UNCHANGED <<fentry, fin, fprompt, acc, ret, ferr, global_client, toolVars>>

\* The runtime refuses the connection: no session is opened, the failure
\* propagates.
ConnectFails(c) ==
    /\ fpc[c] = "connect"
    /\ fpc' = [fpc EXCEPT ![c] = "raised"]
    /\ ferr' = [ferr EXCEPT ![c] = "connect"]
    /\ UNCHANGED <<fentry, fin, fprompt, client, acc, ret, sessions,
                   global_client, toolVars>>

\* await client.query(prompt); result = ""
Query(c) ==
    /\ fpc[c] = "query"
    /\ sessions' = [sessions EXCEPT ![client[c]].prompts = Append(@, fprompt[c])]
    /\ acc' = [acc EXCEPT ![c] = ""]
    /\ fpc' = [fpc EXCEPT ![c] = "receive"]
    /\ UNCHANGED <<fentry, fin, fprompt, client, ret, ferr, global_client, toolVars>>

QueryFailsUnreleased(c) ==
    /\ fpc[c] = "query"
    /\ fpc' = [fpc EXCEPT ![c] = "raised"]
    /\ ferr' = [ferr EXCEPT ![c] = "query"]
    /\ UNCHANGED <<fentry, fin, fprompt, client, acc, ret, sessions,
                   global_client, toolVars>>

\* client.query raises: the failure leaves the `async with` block.
QueryFails(c) ==
    /\ fpc[c] = "query"
    /\ fpc' = [fpc EXCEPT ![c] = "exiting"]
    /\ ferr' = [ferr EXCEPT ![c] = "query"]
    /\ UNCHANGED <<fentry, fin, fprompt, client, acc, ret, sessions,
                   global_client, toolVars>>

LatestSession(c) == Len(sessions)

\* The session client.receive_response() of call c reads: its own.
ReadSession(c) == client[c]

\* async for message in client.receive_response(): the session yields one
\* more message and the loop body runs on it.
Receive(c, messages, limit) ==
    /\ fpc[c] = "receive"
    /\ Len(sessions[ReadSession(c)].yielded) < limit
    /\ \E message \in messages :
        /\ sessions' = [sessions EXCEPT ![ReadSession(c)].yielded = Append(@, message)]
        /\ acc' = [acc EXCEPT ![c] = aggregate_step(fentry[c], @, message)]
    /\ UNCHANGED <<fpc, fentry, fin, fprompt, client, ret, ferr, global_client,
                   toolVars>>

\* The stream raises while it is read: the failure leaves the block.
ReceiveFails(c) ==
    /\ fpc[c] = "receive"
    /\ fpc' = [fpc EXCEPT ![c] = "exiting"]
    /\ ferr' = [ferr EXCEPT ![c] = "stream"]
    /\ UNCHANGED <<fentry, fin, fprompt, client, acc, ret, sessions,
                   global_client, toolVars>>

\* The stream ends: the return statement, inside the block.
EndOfStream(c) ==
    /\ fpc[c] = "receive"
    /\ ret' = [ret EXCEPT ![c] = return_value(fentry[c], acc[c])]
    /\ fpc' = [fpc EXCEPT ![c] = "exiting"]
    /\ UNCHANGED <<fentry, fin, fprompt, client, acc, ferr, sessions,
                   global_client, toolVars>>

\* __aexit__: the session is released, then the call returns or raises.
Exit(c) ==
    /\ fpc[c] = "exiting"
    /\ sessions' = [sessions EXCEPT ![client[c]].state = "closed"]
    /\ fpc' = [fpc EXCEPT ![c] = IF ferr[c] = "none" THEN "returned" ELSE "raised"]
    /\ UNCHANGED <<fentry, fin, fprompt, client, acc, ret, ferr, global_client,
                   toolVars>>

InitFacade ==
    /\ fpc = [c \in Calls |-> "idle"]
    /\ fentry = [c \in Calls |-> "none"]
    /\ fin = [c \in Calls |-> NoInput]
    /\ fprompt = [c \in Calls |-> ""]
    /\ client = [c \in Calls |-> 0]
    /\ acc = [c \in Calls |-> ""]
    /\ ret = [c \in Calls |-> ""]
    /\ ferr = [c \in Calls |-> "none"]
    /\ sessions = <<>>
    /\ global_client = "None"

Init == InitTools /\ InitFacade

\* One facade call, of any entry point, over every stream of Messages.
NextFacade ==
    \/ Call(1, Entries)
    \/ Connect(1)
    \/ ConnectFails(1)
    \/ Query(1)
    \/ QueryFails(1)
    \/ Receive(1, Messages, MaxMsgs)
    \/ ReceiveFails(1)
    \/ EndOfStream(1)
    \/ Exit(1)

SpecFacade == Init /\ [][NextFacade]_vars

ConcEntries == {"query_claude_general", "query_claude_general_local"}

\* The calls of Calls, interleaved at their awaits.
NextConc ==
    \E c \in Calls :
        \/ Call(c, ConcEntries)
        \/ Connect(c)
        \/ ConnectFails(c)
        \/ Query(c)
        \/ QueryFails(c)
        \/ Receive(c, ConcMessages, MaxConcMsgs)
        \/ ReceiveFails(c)
        \/ EndOfStream(c)
        \/ Exit(c)

SpecConc == Init /\ [][NextConc]_vars

NextTools ==
    \/ GenerateDescription
    \/ GenerateKeywords
    \/ CallGraphqlEndpoint
    \/ QueryCallGraphqlEndpoint
    \/ HttpResponse
    \/ HttpTransportError

SpecTools == Init /\ [][NextTools]_vars

(***************************************************************************)
(* Properties of the tool handlers, checked under SpecTools.               *)
(***************************************************************************)
\* The text of the single block a handler returned.
ReturnedText == tout.content[1].text

OneTextBlock == Len(tout.content) = 1 /\ tout.content[1].type = "text"

EndsWith(s, suffix) ==
    /\ Len(s) >= Len(suffix)
    /\ SubSeq(s, Len(s) - Len(suffix) + 1, Len(s)) = suffix

Contains(s, sub) ==
    \E i \in 1 .. (Len(s) - Len(sub) + 1) : SubSeq(s, i, i + Len(sub) - 1) = sub

\* The tokens of a ", "-joined text (tokens hold neither "," nor " ").
RECURSIVE SplitTokens(_, _, _)
SplitTokens(s, i, cur) ==
    IF i > Len(s) THEN (IF cur = "" THEN <<>> ELSE <<cur>>)
    ELSE IF i < Len(s) /\ SubSeq(s, i, i + 1) = ", "
         THEN <<cur>> \o SplitTokens(s, i + 2, "")
         ELSE SplitTokens(s, i + 1, cur \o SubSeq(s, i, i))

ReturnedTokens == SplitTokens(ReturnedText, 1, "")

\* No character of t is an upper-case letter.
IsLowercase(t) == \A i \in 1 .. Len(t) : SubSeq(t, i, i) \notin {"A", "B"}

\* The distinct words longer than 3 of the lowercased content and context.
QualifyingWords ==
    LET ws == FindAll(Lower(Get(targs, "content", "")))
                \o FindAll(Lower(Get(targs, "context", "")))
    IN  {ws[i] : i \in {j \in 1 .. Len(ws) : Len(ws[j]) > 3}}

DescriptionReturned == tool = "generate_description" /\ tpc = "returned"

KeywordsReturned == tool = "generate_keywords" /\ tpc = "returned"

\* C1: for every content, context and integer max_length (smaller than 3,
\* zero and negative included) the text generate_description returns is at
\* most max_length long, and when the template text was longer than
\* max_length the returned text ends in "...".
C1_DescriptionWithinMaxLength ==
    DescriptionReturned =>
        LET max_length == Get(targs, "max_length", DefaultMaxLength)
        IN  /\ Len(ReturnedText) <= max_length
            /\ Len(DescriptionTemplate(targs)) > max_length
                    => EndsWith(ReturnedText, "...")

\* C2 as stated: for every content, context and integer max_keywords (zero
\* and negative included) generate_keywords returns at most max_keywords
\* tokens, each longer than 3, lowercase, and none twice.
C2_AtMostMaxKeywords ==
    KeywordsReturned =>
        LET max_keywords == Get(targs, "max_keywords", DefaultMaxKeywords)
            tokens == ReturnedTokens
        IN  /\ Len(tokens) <= max_keywords
            /\ \A i \in 1 .. Len(tokens) :
                    Len(tokens[i]) > 3 /\ IsLowercase(tokens[i])
            /\ \A i, j \in 1 .. Len(tokens) : tokens[i] = tokens[j] => i = j

\* C2 amended: for every max_keywords >= 0 generate_keywords returns at most
\* max_keywords tokens; for a negative max_keywords it returns all but the
\* last -max_keywords of the n distinct qualifying tokens (max(0, n +
\* max_keywords) tokens, which is more than max_keywords); in every case each
\* token is longer than 3, lowercase, and none appears twice.
C2_KeywordsBounded ==
    KeywordsReturned =>
        LET max_keywords == Get(targs, "max_keywords", DefaultMaxKeywords)
            tokens == ReturnedTokens
            n == Cardinality(QualifyingWords)
        IN  /\ max_keywords >= 0 => Len(tokens) <= max_keywords
            /\ max_keywords < 0 => Len(tokens) = Max(0, n + max_keywords)
            /\ \A i \in 1 .. Len(tokens) :
                    Len(tokens[i]) > 3 /\ IsLowercase(tokens[i])
            /\ \A i, j \in 1 .. Len(tokens) : tokens[i] = tokens[j] => i = j

\* A call that cut the list: two distinct qualifying words for a max_keywords
\* of 1, one of them repeated and first written in upper case.
C2_Witness ==
    /\ KeywordsReturned
    /\ Get(targs, "max_keywords", DefaultMaxKeywords) = 1
    /\ Get(targs, "content", "") = "ABBA,abba baba "
    /\ Cardinality(QualifyingWords) = 2
    /\ ReturnedTokens = <<"abba">>

\* C3: with no endpoint in the arguments and none in the environment,
\* call_graphql_endpoint returns exactly one text block whose text contains
\* "Error: GraphQL endpoint not provided", does not raise and performs no
\* POST, whatever the query, the variables and the token are.
C3_MissingEndpointIsAnErrorText ==
    (/\ tool = "call_graphql_endpoint"
     /\ Get(targs, "graphql_endpoint", "") = ""
     /\ Get(tenv, "GRAPHQL_ENDPOINT", "") = "")
        => /\ tpc = "returned"
           /\ OneTextBlock
           /\ Contains(ReturnedText, "Error: GraphQL endpoint not provided")
           /\ posts = <<>>
           /\ tresp = NoResponse

\* The endpoint is an empty text in the environment and absent from the
\* arguments, while a query, variables and a token were given.
C3_Witness ==
    /\ tool = "call_graphql_endpoint"
    /\ tpc = "returned"
    /\ "graphql_endpoint" \notin DOMAIN targs
    /\ "GRAPHQL_ENDPOINT" \in DOMAIN tenv /\ tenv["GRAPHQL_ENDPOINT"] = ""
    /\ {"graphql_query", "graphql_vars", "graphql_auth_token"} \subseteq DOMAIN targs
    /\ targs["graphql_auth_token"] = "argtoken"
    /\ posts = <<>>

\* C4: with an endpoint configured call_graphql_endpoint performs exactly one
\* POST and, for every HTTP response, returns exactly one text block without
\* raising: the JSON-serialized body when the status is 200, otherwise an
\* error text that embeds the status code and the body.
C4_EveryResponseIsReturnedAsText ==
    (tool = "call_graphql_endpoint" /\ tresp # NoResponse)
        => /\ Len(posts) = 1
           /\ tpc = "returned"
           /\ OneTextBlock
           /\ (tresp.status = 200 /\ JsonValid(tresp.text))
                => ReturnedText = JsonDumps(JsonLoads(tresp.text))
           /\ tresp.status # 200
                => /\ Contains(ReturnedText, ToString(tresp.status))
                   /\ Contains(ReturnedText, tresp.text)

\* Every occurrence of a qualifying token in the lowercased content followed
\* by the lowercased context, in order.
TokenStream ==
    LET ws == FindAll(Lower(Get(targs, "content", "")))
                \o FindAll(Lower(Get(targs, "context", "")))
    IN  SelectSeq(ws, LAMBDA w : Len(w) > 3)

Occurrences(w) ==
    Cardinality({i \in 1 .. Len(TokenStream) : TokenStream[i] = w})

FirstOccurrence(w) ==
    CHOOSE i \in 1 .. Len(TokenStream) :
        TokenStream[i] = w /\ \A j \in 1 .. (i - 1) : TokenStream[j] # w

\* v comes before w in the order of the claim: counted more often, or as
\* often and met first.
RanksBefore(v, w) ==
    \/ Occurrences(v) > Occurrences(w)
    \/ Occurrences(v) = Occurrences(w) /\ FirstOccurrence(v) < FirstOccurrence(w)

\* C11: generate_keywords returns qualifying tokens in the order of
\* non-increasing frequency, counted over the content tokens followed by the
\* context tokens, tokens of equal frequency in the order of their first
\* occurrence in that stream; the result is the head of that order (no token
\* left out ranks before a returned one), of max_keywords tokens, or of all
\* n qualifying tokens when there are fewer, for a max_keywords that is a
\* count (>= 0).  For a negative max_keywords the result is still a head of
\* the same order, of the length C2 gives.
C11_OrderedByFrequencyThenFirstOccurrence ==
    KeywordsReturned =>
        LET max_keywords == Get(targs, "max_keywords", DefaultMaxKeywords)
            tokens == ReturnedTokens
            returned == {tokens[i] : i \in 1 .. Len(tokens)}
            n == Cardinality(QualifyingWords)
        IN  /\ returned \subseteq QualifyingWords
            /\ \A i, j \in 1 .. Len(tokens) :
                    i < j => RanksBefore(tokens[i], tokens[j])
            /\ \A w \in QualifyingWords \ returned :
                    \A i \in 1 .. Len(tokens) : RanksBefore(tokens[i], w)
            /\ max_keywords >= 0 => Len(tokens) = Min(max_keywords, n)
            /\ max_keywords < 0 => Len(tokens) = Max(0, n + max_keywords)

\* Three words met once each in the content, in the order baba, abba, bbaa;
\* the context counts abba again and so moves it to the front, baba stays
\* ahead of bbaa as met first, and a max_keywords of 2 leaves bbaa out.
C11_Witness ==
    /\ KeywordsReturned
    /\ Get(targs, "content", "") = "baba abba bbaa "
    /\ Get(targs, "context", "") = "ABBA,"
    /\ Get(targs, "max_keywords", DefaultMaxKeywords) = 2
    /\ ReturnedTokens = <<"abba", "baba">>

\* The text the claim resolves for a setting: the explicit argument when it
\* is present and not empty, otherwise the environment variable, "" when
\* neither gives one.
ArgumentElseEnvironment(arg, variable) ==
    IF arg \in DOMAIN targs /\ targs[arg] # "" THEN targs[arg]
    ELSE IF variable \in DOMAIN tenv THEN tenv[variable]
    ELSE ""

\* The request follows the rule of the claim.
PostResolvedFromArgumentsThenEnvironment(request) ==
    LET endpoint == ArgumentElseEnvironment("graphql_endpoint", "GRAPHQL_ENDPOINT")
        token == ArgumentElseEnvironment("graphql_auth_token", "GRAPHQL_AUTH_TOKEN")
        headers == request.headers
    IN  /\ request.url = endpoint
        /\ "Authorization" \in DOMAIN headers <=> token # ""
        /\ token # "" => headers["Authorization"] = "Bearer " \o token
        /\ "Content-Type" \in DOMAIN headers
        /\ headers["Content-Type"] = "application/json"

\* C12: for every call of call_graphql_endpoint that performs a POST, the
\* endpoint and the bearer token are each the explicit argument when it is
\* present and not empty and the environment's otherwise, the request has
\* an Authorization: Bearer header if and only if the token resolved is not
\* empty, and it always has the Content-Type: application/json header.
\* A POST is taken as performed when requests.post was given a URL that is
\* not empty (it sends nothing for an empty one).
C12_PostResolvedFromArgumentsThenEnvironment ==
    \A i \in 1 .. Len(posts) :
        posts[i].url # "" => PostResolvedFromArgumentsThenEnvironment(posts[i])

\* The same rule for the handler of tools.py alone.
ToolsPostResolvedFromArgumentsThenEnvironment ==
    tool = "call_graphql_endpoint" =>
        \A i \in 1 .. Len(posts) :
            PostResolvedFromArgumentsThenEnvironment(posts[i])

\* What the handler of query.py posts instead: the endpoint and the token
\* of the module globals, whatever the arguments and the environment hold,
\* and an Authorization header in every request.
QueryPostTakenFromGlobals ==
    tool = "query.call_graphql_endpoint" =>
        \A i \in 1 .. Len(posts) :
            /\ posts[i].url = tglobals["graphql_endpoint"]
            /\ "Authorization" \in DOMAIN posts[i].headers
            /\ posts[i].headers["Authorization"]
                    = "Bearer " \o tglobals["graphql_auth_token"]

(***************************************************************************)
(* Properties of the query facade.  What a call is expected to return is   *)
(* stated from the stream its session yielded, not from the loop.          *)
(***************************************************************************)
Finished(c) == fpc[c] \in {"returned", "raised"}

\* The messages the session of call c yielded.
StreamOf(c) == IF client[c] = 0 THEN <<>> ELSE sessions[client[c]].yielded

\* The sessions call c opened.
SessionsOf(c) == {s \in 1 .. Len(sessions) : sessions[s].owner = c}

RECURSIVE Flatten(_)
Flatten(seqs) == IF seqs = <<>> THEN <<>> ELSE Head(seqs) \o Flatten(Tail(seqs))

HasTextField(x) == "text" \in DOMAIN x

\* The text-bearing blocks of a stream: message by message, block by block.
TextBlocksOf(stream) ==
    SelectSeq(Flatten([i \in 1 .. Len(stream) |->
                          IF "content" \in DOMAIN stream[i]
                          THEN stream[i].content ELSE <<>>]),
              HasTextField)

\* The concatenation of their texts.
AccumulatedText(stream) ==
    LET blocks == TextBlocksOf(stream)
    IN  Join("", [i \in 1 .. Len(blocks) |-> blocks[i].text])

IsResultMessage(m) == "result" \in DOMAIN m

\* The places of the final-result messages that carry a non-empty string.
FinalPlaces(stream) ==
    {i \in 1 .. Len(stream) :
        IsResultMessage(stream[i]) /\ stream[i].result \notin {None, Some("")}}

HasFinal(stream) == FinalPlaces(stream) # {}

LastFinal(stream) ==
    stream[CHOOSE i \in FinalPlaces(stream) :
              \A j \in FinalPlaces(stream) : j <= i].result[1]

\* What the code returns for a stream, per family of entry points.
ExpectedReturn(entry, stream) ==
    IF entry \in LocalEntries
    THEN IF HasFinal(stream) THEN LastFinal(stream) ELSE FallbackText
    ELSE AccumulatedText(stream)

\* C5 as stated: once a final-result message with a non-empty string is
\* observed, the value returned is that final string, for every message
\* sequence and every entry point.
C5_FinalResultSupersedes ==
    \A c \in Calls :
        (fpc[c] = "returned" /\ HasFinal(StreamOf(c)))
            => \E i \in FinalPlaces(StreamOf(c)) : ret[c] = StreamOf(c)[i].result[1]

\* C5 amended: in query_claude_general_local, once a final-result message
\* with a non-empty string is observed the value returned is the string of
\* the last such message and not the text of the content blocks; the summing
\* entry points (query_claude_general, ask_claude_for_keywords,
\* ask_claude_for_description and the *_sync wrappers) ignore final-result
\* messages and return the accumulated text.
C5_FinalResultSupersedesInLocal ==
    \A c \in Calls :
        (fpc[c] = "returned" /\ HasFinal(StreamOf(c)))
            => /\ fentry[c] \in LocalEntries => ret[c] = LastFinal(StreamOf(c))
               /\ fentry[c] \in SumEntries => ret[c] = AccumulatedText(StreamOf(c))

\* query_claude_general_local returned the final string of a stream that
\* also carried text, before and after the final-result message.
C5_Witness ==
    /\ fpc[1] = "returned"
    /\ fentry[1] = "query_claude_general_local"
    /\ StreamOf(1) = <<AssistantMessage(<<TextBlock("Hello ")>>),
                       ResultMessage(Some("Final answer")),
                       AssistantMessage(<<TextBlock("world")>>)>>
    /\ ret[1] = "Final answer"

\* C6 as stated: the value returned at the end of the stream is the finalized
\* value if one was observed, otherwise the accumulated text, and the literal
\* fallback exactly when both are empty.
C6_FinalElseTextElseFallback ==
    \A c \in Calls :
        fpc[c] = "returned"
            => IF HasFinal(StreamOf(c))
               THEN \E i \in FinalPlaces(StreamOf(c)) :
                        ret[c] = StreamOf(c)[i].result[1]
               ELSE IF AccumulatedText(StreamOf(c)) # ""
                    THEN ret[c] = AccumulatedText(StreamOf(c))
                    ELSE ret[c] = FallbackText

\* C6 amended: at the end of the stream the summing entry points return the
\* accumulated text, whether or not a final result was observed, and the
\* empty string (no fallback) when no text was accumulated;
\* query_claude_general_local returns the last non-empty final-result string
\* if one was observed and the literal "No result generated" otherwise, never
\* the accumulated text.
C6_ReturnPerEntryPoint ==
    \A c \in Calls :
        fpc[c] = "returned"
            => /\ fentry[c] \in SumEntries => ret[c] = AccumulatedText(StreamOf(c))
               /\ fentry[c] \in LocalEntries
                    => /\ HasFinal(StreamOf(c)) => ret[c] = LastFinal(StreamOf(c))
                       /\ ~HasFinal(StreamOf(c)) => ret[c] = "No result generated"

\* query_claude_general_local returned the fallback for a stream with text
\* and an empty final result.
C6_Witness ==
    /\ fpc[1] = "returned"
    /\ fentry[1] = "query_claude_general_local"
    /\ StreamOf(1) = <<AssistantMessage(<<TextBlock("Hello ")>>),
                       ResultMessage(None)>>
    /\ ret[1] = "No result generated"

\* C7: for a stream without final-result message the summing entry points
\* return the concatenation of the text fields of all text-bearing blocks, in
\* the order of the messages and, within a message, of its blocks; blocks
\* without a text field contribute nothing.
C7_SumIsConcatenationInOrder ==
    \A c \in Calls :
        (/\ fpc[c] = "returned"
         /\ fentry[c] \in SumEntries
         /\ \A i \in 1 .. Len(StreamOf(c)) : ~IsResultMessage(StreamOf(c)[i]))
            => ret[c] = AccumulatedText(StreamOf(c))

\* A message of two texts with a tool-use block between them, then two
\* messages of one text each: the texts came out in the order of the messages
\* and, within the first, of its blocks.
C7_Witness ==
    /\ fpc[1] = "returned"
    /\ fentry[1] = "ask_claude_for_keywords"
    /\ StreamOf(1) = <<AssistantMessage(<<TextBlock("Let me "), ToolUseBlock,
                                          TextBlock("look. ")>>),
                       AssistantMessage(<<TextBlock("Hello ")>>),
                       AssistantMessage(<<TextBlock("world")>>)>>
    /\ ret[1] = "Let me look. Hello world"

\* C8: every session a facade call opened is released when the call has
\* finished, whether it returned, failed submitting the prompt or failed
\* reading the stream.
C8_SessionReleasedOnEveryExit ==
    \A c \in Calls :
        Finished(c) => \A s \in SessionsOf(c) : sessions[s].state = "closed"

\* A call that failed while reading its stream, its session released.
C8_Witness ==
    /\ fpc[1] = "raised"
    /\ ferr[1] = "stream"
    /\ SessionsOf(1) = {1}
    /\ sessions[1].state = "closed"
    /\ Len(sessions[1].yielded) = 2

\* C9: a non-empty context that is not valid JSON makes query_claude_general
\* and query_claude_sync raise, with no session opened and no prompt
\* submitted; an empty context never causes this failure.
C9_MalformedContextRaisesBeforeSession ==
    \A c \in Calls :
        fentry[c] \in {"query_claude_general", "query_claude_sync"}
            => LET context_json == fin[c].context_json
               IN  /\ (context_json # "" /\ ~JsonValid(context_json))
                        => /\ fpc[c] = "raised"
                           /\ ferr[c] = "JSONDecodeError"
                           /\ client[c] = 0
                           /\ SessionsOf(c) = {}
                           /\ \A s \in 1 .. Len(sessions) : sessions[s].prompts = <<>>
                   /\ context_json = "" => ferr[c] # "JSONDecodeError"
                   /\ ferr[c] = "JSONDecodeError" => ~JsonValid(context_json)

\* query_claude_sync raised on a context that is not JSON.
C9_Witness ==
    /\ fentry[1] = "query_claude_sync"
    /\ fin[1].context_json = "not json"
    /\ fpc[1] = "raised"
    /\ sessions = <<>>

\* C10: in any interleaving of concurrent facade calls each call opens one
\* session of its own, submits one prompt to it (its own), reads that
\* session's stream once, and returns a string aggregated from the messages
\* of its own session only; global_client is never written.
C10_CallsAreIsolated ==
    /\ global_client = "None"
    /\ \A c \in Calls :
        /\ Cardinality(SessionsOf(c)) <= 1
        /\ client[c] # 0 => SessionsOf(c) = {client[c]}
        /\ \A s \in SessionsOf(c) :
              /\ Len(sessions[s].prompts) <= 1
              /\ \A i \in 1 .. Len(sessions[s].prompts) :
                    sessions[s].prompts[i] = fprompt[c]
        /\ fpc[c] \in {"receive", "returned"}
              => /\ SessionsOf(c) = {client[c]}
                 /\ sessions[client[c]].prompts = <<fprompt[c]>>
        /\ fpc[c] = "receive"
              => return_value(fentry[c], acc[c])
                    = ExpectedReturn(fentry[c], StreamOf(c))
        /\ fpc[c] = "returned" => ret[c] = ExpectedReturn(fentry[c], StreamOf(c))

\* Two calls of the same entry point ran interleaved, the second to start
\* being the first to open its session, and returned different strings from
\* their different streams.
C10_Witness ==
    /\ fpc[1] = "returned" /\ fpc[2] = "returned"
    /\ fentry[1] = "query_claude_general" /\ fentry[2] = "query_claude_general"
    /\ client[1] = 2 /\ client[2] = 1
    /\ Len(StreamOf(1)) = 2 /\ Len(StreamOf(2)) = 2
    /\ ret[1] = "Hello " /\ ret[2] = "Hello Hello "

=============================================================================
